---- MODULE Spec2Model ----
(***************************************************************************)
(* Model of the scene timing and zoom geometry code of shorts_art:         *)
(*   modules/audio_analyzer.py   AudioAnalyzer._calculate_scene_timings,   *)
(*                               AudioAnalyzer.distribute_scenes_to_timings*)
(*   modules/image_processor.py  ImageProcessor._calculate_crop_box,       *)
(*                               ImageProcessor._fit_to_aspect_ratio       *)
(*   modules/utils.py            clamp                                     *)
(*   modules/video_maker.py      VideoMaker._create_image_clips_with_timings*)
(*                                                                         *)
(* Numbers.  The code computes in Python floats; the model computes the    *)
(* same expressions in exact rational arithmetic over integers:            *)
(*   - a time is an integer number of tenths of a second (0.1 s = 1);      *)
(*     a quotient duration / num_scenes is kept as numerator over the      *)
(*     denominator `den` of the allocation record;                         *)
(*   - a focus coordinate is cn / CoordDen, a zoom is zn / ZoomDen, and a  *)
(*     pixel position is kept multiplied by the common denominator until   *)
(*     int() truncates it.  Where the double result of the code and the    *)
(*     exact result truncate differently, the model follows the double     *)
(*     (FloatBelowWhole).                                                  *)
(***************************************************************************)
EXTENDS Integers, Sequences, FiniteSets

VARIABLES
    \* AudioAnalyzer
    min_scene_interval,   \* config['audio']['min_scene_interval']
    audio_pc,             \* "idle" | "analyzed" | "failed" | "distributed" | "rendered"
                          \* | "reanalyzed" | "redistributed" (a second call returned)
    audio_analysis,       \* the dict analyze() returns
    sync_request,         \* the arguments of distribute_scenes_to_timings
    allocation,           \* its return value
    \* VideoMaker
    clips,                \* the clips _create_image_clips_with_timings returns
    \* ImageProcessor
    video_width,          \* config['video']['width']
    video_height,         \* config['video']['height']
    crop_pc,              \* "idle" | "returned" | "raised"
    crop_args,            \* the arguments of _calculate_crop_box
    crop_result,          \* its return value, or the exception it raised
    fit_log,              \* one record per call of _fit_to_aspect_ratio
    \* VideoMaker, text-length mode
    base_duration,        \* config['video']['base_duration'], in hundredths of a second
    duration_per_char,    \* config['video']['duration_per_char'], in hundredths
    text_pc,              \* "idle" | "done"
    text_clips,           \* the clips _create_image_clips returns
    \* ClaudeAnalyzer.resize_image_under_limit
    max_dimension,        \* config['image']['max_dimension']
    min_dimension,        \* config['image']['min_dimension']
    resize_pc,            \* "idle" | "opened" (before the first encoding)
                          \* | "retry" (an encoding was too large) | "returned" | "raised"
    width,                \* the locals of the same names
    height,
    quality,
    \* run.py
    paintings,            \* the list load_paintings() returns: for each entry, which
                          \* of the fields the program reads it has
    menu_pc,              \* "menu" (in the loop) | "exited"
    choice,               \* what the last iteration of the loop read
    run_log,              \* the calls of run_painting made by the last iteration
    exit_cause,           \* how the loop was left
    \* main.py: process_artwork
    pipe_pc,              \* "start" | "downloaded" | "analyzed" | "zoomed" | "subtitled"
                          \* | "museum" | "timed" | "finished" | "raised"
    stages,               \* the stages entered so far, in order
    scene_texts,          \* len(scenes)
    image_size,           \* the size of the downloaded image
    download_ok,          \* what download_image returned
    analysis_success,     \* result['success']
    coordinates,          \* result['coordinates']
    zoom_log,             \* generate_zoomed_images: what became of each coordinate
    zoomed_files,         \* its return value: the scene of each file
    subtitled_files,      \* the image list handed to create_video
    audio_options,        \* args.audio, the file, config['audio'], the analysis
    scene_timings_arg,    \* the scene_timings handed to create_video
    video                 \* the mode create_video chose and its clips

text_vars == <<base_duration, duration_per_char, text_pc, text_clips>>
resize_vars == <<max_dimension, min_dimension, resize_pc, width, height, quality>>

\* The state outside the audio analyzer and the image processor.
menu_vars == <<paintings, menu_pc, choice, run_log, exit_cause>>
pipe_vars == <<pipe_pc, stages, scene_texts, image_size, download_ok, analysis_success,
               coordinates, zoom_log, zoomed_files, subtitled_files, audio_options,
               scene_timings_arg, video>>
outer_vars == <<text_vars, resize_vars, menu_vars, pipe_vars>>

vars == <<min_scene_interval, audio_pc, audio_analysis, sync_request, allocation, clips,
          video_width, video_height, crop_pc, crop_args, crop_result, fit_log,
          outer_vars>>

audio_vars == <<min_scene_interval, audio_pc, audio_analysis, sync_request, allocation, clips>>
image_vars == <<video_width, video_height, crop_pc, crop_args, crop_result, fit_log>>

\* What a call of the video maker, of the resize and of the menu leaves alone.
beside_text == <<audio_vars, image_vars, resize_vars, menu_vars, pipe_vars>>
beside_resize == <<audio_vars, image_vars, text_vars, menu_vars, pipe_vars>>
beside_menu == <<audio_vars, image_vars, text_vars, resize_vars, pipe_vars>>
\* process_artwork builds its own processor, analyzers and video maker.
beside_pipe == <<audio_vars, image_vars, text_vars, resize_vars, menu_vars>>

-----------------------------------------------------------------------------
(* Bounds of the model *)

\* Largest audio duration, in tenths of a second.
MaxTime == 5
\* Largest number of beats, and of onsets, the analyzer reports.
MaxBeats == 2
\* Largest num_scenes.
MaxScenes == 4
\* Image widths and heights run over 1..MaxDim (and the 1000 px of ImageDims).
MaxDim == 4
\* Zooms run over zn / ZoomDen with zn in 0..MaxZoomNum.
MaxZoomNum == 8
\* Sizes of the image handed to _fit_to_aspect_ratio run over 1..MaxBox.
MaxBox == 12
\* Configured video sizes run over 1..MaxTarget (and the 9:16 of the docstring).
MaxTarget == 4

\* Largest number of narrated texts handed to _create_image_clips.
MaxTexts == 2
\* Largest number of characters of a narration text.
MaxChars == 6

\* Widths and heights of the image file handed to resize_image_under_limit
\* run over 1..MaxSide.
MaxSide == 6

\* Largest number of entries of paintings.json.
MaxPaintings == 3

\* Largest number of narration scenes handed to process_artwork.
MaxNarrations == 2
\* Largest number of coordinates the analyzer returns.
MaxCoordinates == 3

-----------------------------------------------------------------------------
(* Program constants *)

\* min_scene_interval default 0.5 s
DefaultMinInterval == 5
\* `filtered_timings[0] > 0.1`
StartThreshold == 1

\* base_duration default 1.5 s and duration_per_char default 0.08 s, in
\* hundredths of a second
DefaultBaseDuration == 150
DefaultDurationPerChar == 8
\* DEFAULT_FINAL_SCENE_DURATION = 5.0 s, in tenths of a second
DefaultFinalSceneDuration == 50

\* Values of config['video']['base_duration'] and ['duration_per_char'] the
\* model runs with, in hundredths: the defaults, 0 s and 1 s, 0 s and 0.05 s.
BaseDurations == {0, 100, DefaultBaseDuration}
DurationsPerChar == {0, 5, DefaultDurationPerChar}

\* `quality = 85`, `if quality > 40`, `quality -= 5`, `int(width * 0.85)`
InitialQuality == 85
QualityFloor == 40
QualityStep == 5
ShrinkPercent == 85

\* Values of config['image']['max_dimension'] and ['min_dimension'] the model
\* runs with.
MaxDimensions == {MaxSide - 2, MaxSide}
MinDimensions == 1..2

\* Values of config['audio']['min_scene_interval'] the model runs with:
\* 0.2 s and the default.
MinIntervals == {2, DefaultMinInterval}

\* The four strategy names of the docstring, and a name that is none of them.
Strategies == {"auto", "evenly", "beats", "onsets", "other"}

\* The float x, y of a focus point (0.0~1.0) is cn / CoordDen, cn in 0..CoordDen.
CoordDen == 20
\* The float zoom of a focus point is zn / ZoomDen.
ZoomDen == 2

\* "9:16 비율": the portrait frame the docstrings name.
PortraitWidth == 9
PortraitHeight == 16

ImageDims == (1..MaxDim) \cup {1000}
TargetSizes == ((1..MaxTarget) \X (1..MaxTarget)) \cup {<<PortraitWidth, PortraitHeight>>}

-----------------------------------------------------------------------------
(* Helpers *)

Range(s) == {s[i] : i \in DOMAIN s}

\* min and max of two numbers
Min(a, b) == IF a <= b THEN a ELSE b
Max(a, b) == IF a >= b THEN a ELSE b

\* sorted(S) of a set of numbers
RECURSIVE SortedSeq(_)
SortedSeq(S) ==
    IF S = {} THEN <<>>
    ELSE LET m == CHOOSE x \in S : \A y \in S : x <= y
         IN  <<m>> \o SortedSeq(S \ {m})

\* The audio durations librosa.get_duration returns: 0.1 s .. MaxTime tenths,
\* and a track of 40 s.
Durations == (1..MaxTime) \cup {400}

\* The strictly increasing timestamp lists librosa.frames_to_time returns for
\* a signal of length `duration`: at most MaxBeats timestamps within the
\* first MaxTime tenths of the signal, and for a signal of 6 s or more also
\* the lists 1.0, 2.5 and 4.0, 6.0.
TimestampLists(duration) ==
    {SortedSeq(S) : S \in {T \in SUBSET (0..Min(duration, MaxTime)) :
                              Cardinality(T) <= MaxBeats}}
    \cup (IF duration >= 60 THEN {<<10, 25>>, <<40, 60>>} ELSE {})

-----------------------------------------------------------------------------
(* AudioAnalyzer._calculate_scene_timings *)

\* FilterTimings that measures the gap from the last raw timestamp instead
\* of the last kept one: last_time is updated on every iteration.
RECURSIVE FilterTimingsLastRaw(_, _, _, _, _)
FilterTimingsLastRaw(all_timings, i, last_time, filtered_timings, min_interval) ==
    IF i > Len(all_timings) THEN filtered_timings
    ELSE LET time == all_timings[i] IN
         IF time - last_time >= min_interval
         THEN FilterTimingsLastRaw(all_timings, i + 1, time,
                                   Append(filtered_timings, time), min_interval)
         ELSE FilterTimingsLastRaw(all_timings, i + 1, time,
                                   filtered_timings, min_interval)

\* The loop `for time in all_timings`, from index i on.
RECURSIVE FilterTimings(_, _, _, _, _)
FilterTimings(all_timings, i, last_time, filtered_timings, min_interval) ==
    IF i > Len(all_timings) THEN filtered_timings
    ELSE LET time == all_timings[i] IN
         IF time - last_time >= min_interval
         THEN FilterTimings(all_timings, i + 1, time,
                            Append(filtered_timings, time), min_interval)
         ELSE FilterTimings(all_timings, i + 1, last_time,
                            filtered_timings, min_interval)

\* CalculateSceneTimings with the 0.0 inserted whatever the filtered list is.
CalculateSceneTimingsAlwaysPrepend(beats, onsets, min_interval) ==
    <<0>> \o FilterTimings(SortedSeq(Range(beats \o onsets)), 1, -min_interval,
                           <<>>, min_interval)

\* CalculateSceneTimings without the insertion of 0.0.
CalculateSceneTimingsNeverPrepend(beats, onsets, min_interval) ==
    FilterTimings(SortedSeq(Range(beats \o onsets)), 1, -min_interval,
                  <<>>, min_interval)

CalculateSceneTimings(beats, onsets, min_interval) ==
    LET all_timings == SortedSeq(Range(beats \o onsets))
        filtered_timings == FilterTimings(all_timings, 1, -min_interval, <<>>, min_interval)
    IN  IF filtered_timings = <<>> \/ filtered_timings[1] > StartThreshold
        THEN <<0>> \o filtered_timings
        ELSE filtered_timings

\* CalculateSceneTimingsCall that merges in place: `beats += onsets` instead
\* of `beats + onsets`, which extends the caller's list.
CalculateSceneTimingsCallInPlace(beats, onsets, min_interval) ==
    [result |-> CalculateSceneTimings(beats, onsets, min_interval),
     beats  |-> beats \o onsets,
     onsets |-> onsets]

\* One call with the caller's lists as it leaves them: `beats + onsets` and
\* sorted(set(...)) build new lists, and insert(0, 0.0) acts on the new
\* filtered_timings.
CalculateSceneTimingsCall(beats, onsets, min_interval) ==
    [result |-> CalculateSceneTimings(beats, onsets, min_interval),
     beats  |-> beats,
     onsets |-> onsets]

-----------------------------------------------------------------------------
(* AudioAnalyzer.distribute_scenes_to_timings *)

\* LinspaceInt without the end point: num values k * stop / num, truncated.
LinspaceIntNoEndpoint(stop, num) ==
    [k \in 1..num |-> ((k - 1) * stop) \div num]

\* np.linspace(0, stop, num, dtype=int): num evenly spaced values from 0 to
\* stop inclusive, each truncated to an integer.
LinspaceInt(stop, num) ==
    [k \in 1..num |-> IF num = 1 THEN 0 ELSE ((k - 1) * stop) \div (num - 1)]

\* EvenSplit with the windows counted from 1: window i starts at (i + 1) * T / N.
EvenSplitFromOne(num_scenes, duration) ==
    [den    |-> num_scenes,
     scenes |-> [k \in 1..num_scenes |->
                   [scene_index |-> k - 1,
                    start_time  |-> k * duration,
                    duration    |-> duration]]]

\* The even split; start and duration are numerators over den = num_scenes.
EvenSplit(num_scenes, duration) ==
    [den    |-> num_scenes,
     scenes |-> [k \in 1..num_scenes |->
                   [scene_index |-> k - 1,
                    start_time  |-> (k - 1) * duration,
                    duration    |-> duration]]]

\* SourceTimings that samples the merged timeline under every strategy.
SourceTimingsAlwaysTimeline(analysis, strategy) == analysis.scene_timings

\* The branch on strategy that picks the source list.
SourceTimings(analysis, strategy) ==
    IF strategy = "beats" THEN analysis.beats
    ELSE IF strategy = "onsets" THEN analysis.onsets
    ELSE analysis.scene_timings

\* SampledSplit with every scene running to the end of the audio.
SampledSplitToEnd(num_scenes, timings, duration) ==
    LET selected_indices == LinspaceInt(Len(timings) - 1, num_scenes)
    IN  [den    |-> 1,
         scenes |-> [k \in 1..num_scenes |->
                       [scene_index |-> k - 1,
                        start_time  |-> timings[selected_indices[k] + 1],
                        duration    |-> duration - timings[selected_indices[k] + 1]]]]

\* The sampled allocation, for len(timings) >= num_scenes.
SampledSplit(num_scenes, timings, duration) ==
    LET selected_indices == LinspaceInt(Len(timings) - 1, num_scenes)
        selected_timings == [k \in 1..num_scenes |-> timings[selected_indices[k] + 1]]
    IN  [den    |-> 1,
         scenes |-> [k \in 1..num_scenes |->
                       LET start_time == selected_timings[k]
                           end_time   == IF k < num_scenes
                                         THEN selected_timings[k + 1]
                                         ELSE duration
                       IN  [scene_index |-> k - 1,
                            start_time  |-> start_time,
                            duration    |-> end_time - start_time]]]

\* DistributeScenesToTimings without the fallback: a list that is too short
\* is sampled once per timestamp it has.
DistributeScenesToTimingsShortSample(num_scenes, analysis, strategy) ==
    IF strategy = "evenly" THEN EvenSplit(num_scenes, analysis.duration)
    ELSE LET timings == SourceTimings(analysis, strategy) IN
         SampledSplit(Min(num_scenes, Len(timings)), timings, analysis.duration)

DistributeScenesToTimings(num_scenes, analysis, strategy) ==
    IF strategy = "evenly" THEN EvenSplit(num_scenes, analysis.duration)
    ELSE LET timings == SourceTimings(analysis, strategy) IN
         IF Len(timings) < num_scenes
         THEN EvenSplit(num_scenes, analysis.duration)
         ELSE SampledSplit(num_scenes, timings, analysis.duration)

\* One call with the caller's audio_analysis as it leaves it: the dict and
\* its lists are only read.
DistributeScenesToTimingsCall(num_scenes, analysis, strategy) ==
    [result   |-> DistributeScenesToTimings(num_scenes, analysis, strategy),
     analysis |-> analysis]

-----------------------------------------------------------------------------
(* VideoMaker._create_image_clips_with_timings *)

\* The loop `for scene_idx, start_time, duration in scene_timings`, from
\* index i on: a scene without an image is skipped, every other scene appends
\* a clip of its duration.
RECURSIVE ClipLoop(_, _, _, _)
ClipLoop(image_count, scene_timings, i, clip_list) ==
    IF i > Len(scene_timings) THEN clip_list
    ELSE LET scene == scene_timings[i] IN
         IF scene.scene_index >= image_count
         THEN ClipLoop(image_count, scene_timings, i + 1, clip_list)
         ELSE ClipLoop(image_count, scene_timings, i + 1,
                       Append(clip_list, [scene_index |-> scene.scene_index,
                                          start_time  |-> scene.start_time,
                                          duration    |-> scene.duration]))

CreateImageClipsWithTimings(image_count, scene_timings) ==
    ClipLoop(image_count, scene_timings, 1, <<>>)

\* concatenate_videoclips: the time at which clip k begins in the video, the
\* sum of the durations of the clips before it.
RECURSIVE ClipBegin(_, _)
ClipBegin(clip_list, k) ==
    IF k = 1 THEN 0 ELSE ClipBegin(clip_list, k - 1) + clip_list[k - 1].duration

-----------------------------------------------------------------------------
(* VideoMaker.calculate_duration and VideoMaker._create_image_clips *)

\* A text is its number of characters; NoText stands for None.
NoText == -1

\* CalculateDuration with int() in place of round(): the hundredths are cut.
CalculateDurationTruncated(base, per_char, char_count, tie_up) ==
    (base + char_count * per_char) \div 10

\* round(base_duration + char_count * duration_per_char, 1), in tenths of a
\* second.  round() rounds the double, which for a sum whose exact value ends
\* in 5 hundredths lies on either side of the tie; tie_up says on which.
CalculateDuration(base, per_char, char_count, tie_up) ==
    LET duration == base + char_count * per_char
        tenths   == duration \div 10
        rest     == duration % 10
    IN  IF rest > 5 \/ (rest = 5 /\ tie_up) THEN tenths + 1 ELSE tenths

\* The loop `for i, img_path in enumerate(image_files)`: a clip per image,
\* timed by its text when it has one and by the default otherwise.
CreateImageClips(image_count, texts, base, per_char, tie_ups) ==
    [i \in 1..image_count |->
        IF texts # <<>> /\ i <= Len(texts) /\ texts[i] # NoText
        THEN [narrated |-> TRUE,
              chars    |-> texts[i],
              duration |-> CalculateDuration(base, per_char, texts[i], tie_ups[i])]
        ELSE [narrated |-> FALSE,
              chars    |-> 0,
              duration |-> DefaultFinalSceneDuration]]

\* The lists of narration texts of at most MaxTexts texts.
TextLists ==
    UNION {[1..n -> 0..MaxChars] : n \in 0..MaxTexts}

\* create_video() in text-length mode, as process_artwork calls it: one image
\* per narration text and the final scene, whose text is None.
CreateImageClipsCall ==
    /\ text_pc = "idle"
    /\ \E texts \in TextLists :
       \E tie_ups \in [1..(Len(texts) + 1) -> BOOLEAN] :
          text_clips' = CreateImageClips(Len(texts) + 1, texts \o <<NoText>>,
                                         base_duration, duration_per_char, tie_ups)
    /\ text_pc' = "done"
    /\ UNCHANGED <<base_duration, duration_per_char>>
    /\ UNCHANGED beside_text

TextIdle ==
    /\ base_duration = DefaultBaseDuration
    /\ duration_per_char = DefaultDurationPerChar
    /\ text_pc = "idle"
    /\ text_clips = <<>>

-----------------------------------------------------------------------------
(* ClaudeAnalyzer.resize_image_under_limit *)

\* Shrink that keeps the size.
ShrinkKeepsSize(side) == side

\* int(side * 0.85); the double product truncates to the exact floor for
\* every side up to 200000.
Shrink(side) == (ShrinkPercent * side) \div 100

\* The size after `if width > max_dimension or height > max_dimension`: the
\* longer side becomes max_dimension and the other int(side * (max / longer)).
PreResize(w, h, max_dim) ==
    IF w > max_dim \/ h > max_dim
    THEN IF w > h THEN <<max_dim, (h * max_dim) \div w>>
                  ELSE <<(w * max_dim) \div h, max_dim>>
    ELSE <<w, h>>

\* The check that ends an iteration of `while True` whose encoding was too
\* large.
TooSmall(w, h) == w < min_dimension \/ h < min_dimension

\* Image.open and the first resize.  Image.resize raises ValueError for a
\* size with a zero side.
OpenImage ==
    /\ resize_pc = "idle"
    /\ \E w \in 1..MaxSide, h \in 1..MaxSide :
          LET size == PreResize(w, h, max_dimension) IN
          /\ width' = size[1]
          /\ height' = size[2]
          /\ resize_pc' = IF size[1] = 0 \/ size[2] = 0 THEN "raised" ELSE "opened"
    /\ quality' = InitialQuality
    /\ UNCHANGED <<max_dimension, min_dimension>>
    /\ UNCHANGED beside_resize

Encoding == resize_pc \in {"opened", "retry"}

\* An iteration whose encoding is within the limit: `return image_data`.
EncodingFits ==
    /\ Encoding
    /\ resize_pc' = "returned"
    /\ UNCHANGED <<max_dimension, min_dimension, width, height, quality>>
    /\ UNCHANGED beside_resize

\* An iteration whose encoding is too large, with quality > 40.
LowerQuality ==
    /\ Encoding
    /\ quality > QualityFloor
    /\ quality' = quality - QualityStep
    /\ resize_pc' = IF TooSmall(width, height) THEN "raised" ELSE "retry"
    /\ UNCHANGED <<max_dimension, min_dimension, width, height>>
    /\ UNCHANGED beside_resize

\* An iteration whose encoding is too large, with quality <= 40.
ShrinkImage ==
    /\ Encoding
    /\ ~(quality > QualityFloor)
    /\ width' = Shrink(width)
    /\ height' = Shrink(height)
    /\ quality' = InitialQuality
    /\ resize_pc' = IF TooSmall(Shrink(width), Shrink(height)) THEN "raised" ELSE "retry"
    /\ UNCHANGED <<max_dimension, min_dimension>>
    /\ UNCHANGED beside_resize

ResizeIdle ==
    /\ max_dimension = MaxSide
    /\ min_dimension = 1
    /\ resize_pc = "idle"
    /\ width = 0
    /\ height = 0
    /\ quality = InitialQuality

-----------------------------------------------------------------------------
(* run.py: run_painting and the loop of main *)

\* An entry of paintings.json has every field the program reads, or lacks one
\* that only run_painting reads, or lacks one that show_menu prints.
PaintingKinds == {"complete", "no_artwork_info", "no_title"}

\* What subprocess.run(cmd, check=True) does: returns, raises
\* CalledProcessError for a non-zero exit, is interrupted from the keyboard,
\* or raises OSError because the interpreter cannot be started.
SubprocessOutcomes == {"completed", "failed", "interrupted", "not_started"}

PaintingLists == UNION {[1..n -> PaintingKinds] : n \in 1..MaxPaintings}

\* RunPainting without `except subprocess.CalledProcessError`.
RunPaintingFailureEscapes(painting, outcome) ==
    IF painting = "no_artwork_info"
    THEN [subprocess |-> "none", result |-> "Exception"]
    ELSE [subprocess |-> outcome,
          result |-> CASE outcome = "completed"   -> "returned"
                       [] outcome = "failed"      -> "Exception"
                       [] outcome = "interrupted" -> "KeyboardInterrupt"
                       [] outcome = "not_started" -> "Exception"]

\* run_painting: building cmd raises KeyError for a missing field; a
\* CalledProcessError is caught and reported, a KeyboardInterrupt is raised
\* again, anything else is not caught.
RunPainting(painting, outcome) ==
    IF painting = "no_artwork_info"
    THEN [subprocess |-> "none", result |-> "Exception"]
    ELSE [subprocess |-> outcome,
          result |-> CASE outcome = "completed"   -> "returned"
                       [] outcome = "failed"      -> "returned"
                       [] outcome = "interrupted" -> "KeyboardInterrupt"
                       [] outcome = "not_started" -> "Exception"]

\* `for i, painting in enumerate(paintings, 1): run_painting(painting)`: the
\* calls made, up to the first that raises.
RECURSIVE RunAllLoop(_, _, _, _)
RunAllLoop(painting_list, outcomes, i, log) ==
    IF i > Len(painting_list) THEN log
    ELSE LET run  == RunPainting(painting_list[i], outcomes[i])
             log2 == Append(log, [index |-> i, subprocess |-> run.subprocess,
                                  result |-> run.result])
         IN  IF run.result = "returned"
             THEN RunAllLoop(painting_list, outcomes, i + 1, log2)
             ELSE log2

\* The `except KeyboardInterrupt: break` and `except Exception` of main, for
\* the calls one iteration made.
AfterRuns(log) ==
    IF log # <<>> /\ log[Len(log)].result = "KeyboardInterrupt"
    THEN [pc |-> "exited", cause |-> "KeyboardInterrupt"]
    ELSE [pc |-> "menu", cause |-> "none"]

\* show_menu prints id, title and artist of every entry.
Printable == \A i \in DOMAIN paintings : paintings[i] # "no_title"

\* An iteration of `while True` that reaches input().
AtPrompt == menu_pc = "menu" /\ Printable

\* show_menu, called outside the try block, raises KeyError.
ShowMenuRaises ==
    /\ menu_pc = "menu"
    /\ ~Printable
    /\ menu_pc' = "exited"
    /\ choice' = "none"
    /\ run_log' = <<>>
    /\ exit_cause' = "show_menu"
    /\ UNCHANGED paintings
    /\ UNCHANGED beside_menu

\* choice == '0'
ChooseExit ==
    /\ AtPrompt
    /\ menu_pc' = "exited"
    /\ choice' = "0"
    /\ run_log' = <<>>
    /\ exit_cause' = "choice 0"
    /\ UNCHANGED paintings
    /\ UNCHANGED beside_menu

\* choice == '99' and confirm == 'y'
RunAll ==
    /\ AtPrompt
    /\ \E outcomes \in [DOMAIN paintings -> SubprocessOutcomes] :
          LET log == RunAllLoop(paintings, outcomes, 1, <<>>) IN
          /\ run_log' = log
          /\ menu_pc' = AfterRuns(log).pc
          /\ exit_cause' = AfterRuns(log).cause
    /\ choice' = "99 y"
    /\ UNCHANGED paintings
    /\ UNCHANGED beside_menu

\* choice == '99' and any other confirm
CancelRunAll ==
    /\ AtPrompt
    /\ menu_pc' = "menu"
    /\ choice' = "99 n"
    /\ run_log' = <<>>
    /\ exit_cause' = "none"
    /\ UNCHANGED paintings
    /\ UNCHANGED beside_menu

\* choice is the id of an entry
RunOne ==
    /\ AtPrompt
    /\ \E idx \in DOMAIN paintings, outcome \in SubprocessOutcomes :
          LET run == RunPainting(paintings[idx], outcome)
              log == <<[index |-> idx, subprocess |-> run.subprocess,
                        result |-> run.result]>>
          IN  /\ run_log' = log
              /\ menu_pc' = AfterRuns(log).pc
              /\ exit_cause' = AfterRuns(log).cause
    /\ choice' = "id"
    /\ UNCHANGED paintings
    /\ UNCHANGED beside_menu

\* choice is a number that is no id, or no number (ValueError), or input()
\* raises EOFError: a message, and the loop goes on.
BadChoice ==
    /\ AtPrompt
    /\ menu_pc' = "menu"
    /\ choice' = "bad"
    /\ run_log' = <<>>
    /\ exit_cause' = "none"
    /\ UNCHANGED paintings
    /\ UNCHANGED beside_menu

\* KeyboardInterrupt in one of the two input() calls
InterruptAtPrompt ==
    /\ AtPrompt
    /\ menu_pc' = "exited"
    /\ choice' = "interrupt"
    /\ run_log' = <<>>
    /\ exit_cause' = "KeyboardInterrupt"
    /\ UNCHANGED paintings
    /\ UNCHANGED beside_menu

MenuIdle ==
    /\ paintings = <<"complete">>
    /\ menu_pc = "menu"
    /\ choice = "none"
    /\ run_log = <<>>
    /\ exit_cause = "none"

\* scene_timings = None
NoSceneTimings == [is_none |-> TRUE, den |-> 1, scenes |-> <<>>]
NoAudioOptions == [requested |-> FALSE, exists |-> FALSE, enabled |-> FALSE,
                   analyzed |-> FALSE]
NoVideo == [mode |-> "none", clips |-> <<>>]

PipeIdle ==
    /\ pipe_pc = "start"
    /\ stages = <<>>
    /\ scene_texts = 1
    /\ image_size = <<0, 0>>
    /\ download_ok = TRUE
    /\ analysis_success = TRUE
    /\ coordinates = <<>>
    /\ zoom_log = <<>>
    /\ zoomed_files = <<>>
    /\ subtitled_files = <<>>
    /\ audio_options = NoAudioOptions
    /\ scene_timings_arg = NoSceneTimings
    /\ video = NoVideo

OuterIdle == TextIdle /\ ResizeIdle /\ MenuIdle /\ PipeIdle

-----------------------------------------------------------------------------
(* Actions of the audio analyzer and the video maker *)

NoAnalysis == [duration |-> 0, beats |-> <<>>, onsets |-> <<>>, scene_timings |-> <<>>]
NoRequest == [num_scenes |-> 0, strategy |-> "auto"]
NoAllocation == [den |-> 1, scenes |-> <<>>]

\* analyze(): the external detectors give duration, beats and onsets, then
\* _calculate_scene_timings merges them.
Analyze ==
    /\ audio_pc = "idle"
    /\ \E duration \in Durations :
       \E beats \in TimestampLists(duration), onsets \in TimestampLists(duration) :
          audio_analysis' =
              [duration      |-> duration,
               beats         |-> beats,
               onsets        |-> onsets,
               scene_timings |-> CalculateSceneTimings(beats, onsets, min_scene_interval)]
    /\ audio_pc' = "analyzed"
    /\ UNCHANGED <<min_scene_interval, sync_request, allocation, clips>>
    /\ UNCHANGED image_vars
    /\ UNCHANGED outer_vars

\* analyze(): the `except Exception` branch, which returns None.
AnalyzeFails ==
    /\ audio_pc = "idle"
    /\ audio_pc' = "failed"
    /\ UNCHANGED <<min_scene_interval, audio_analysis, sync_request, allocation, clips>>
    /\ UNCHANGED image_vars
    /\ UNCHANGED outer_vars

Distribute ==
    /\ audio_pc = "analyzed"
    /\ \E num_scenes \in 1..MaxScenes, strategy \in Strategies :
          /\ sync_request' = [num_scenes |-> num_scenes, strategy |-> strategy]
          /\ allocation' = DistributeScenesToTimings(num_scenes, audio_analysis, strategy)
    /\ audio_pc' = "distributed"
    /\ UNCHANGED <<min_scene_interval, audio_analysis, clips>>
    /\ UNCHANGED image_vars
    /\ UNCHANGED outer_vars

\* A second call of _calculate_scene_timings with the lists of the first.
CalculateSceneTimingsAgain ==
    /\ audio_pc = "analyzed"
    /\ LET call == CalculateSceneTimingsCall(audio_analysis.beats, audio_analysis.onsets,
                                             min_scene_interval)
       IN  audio_analysis' = [audio_analysis EXCEPT !.beats = call.beats,
                                                    !.onsets = call.onsets,
                                                    !.scene_timings = call.result]
    /\ audio_pc' = "reanalyzed"
    /\ UNCHANGED <<min_scene_interval, sync_request, allocation, clips>>
    /\ UNCHANGED image_vars
    /\ UNCHANGED outer_vars

\* A second call of distribute_scenes_to_timings with the arguments of the
\* first.
DistributeAgain ==
    /\ audio_pc = "distributed"
    /\ LET call == DistributeScenesToTimingsCall(sync_request.num_scenes, audio_analysis,
                                                 sync_request.strategy)
       IN  /\ allocation' = call.result
           /\ audio_analysis' = call.analysis
    /\ audio_pc' = "redistributed"
    /\ UNCHANGED <<min_scene_interval, sync_request, clips>>
    /\ UNCHANGED image_vars
    /\ UNCHANGED outer_vars

\* create_video() in rhythm mode: process_artwork hands over the allocation
\* and one image per set of coordinates the analyzer returned, plus the final
\* scene; the clips are then concatenated in order.
CreateVideo ==
    /\ audio_pc = "distributed"
    /\ \E image_count \in {sync_request.num_scenes - 1, sync_request.num_scenes} :
          clips' = CreateImageClipsWithTimings(image_count, allocation.scenes)
    /\ audio_pc' = "rendered"
    /\ UNCHANGED <<min_scene_interval, audio_analysis, sync_request, allocation>>
    /\ UNCHANGED image_vars
    /\ UNCHANGED outer_vars

ImageIdle ==
    /\ video_width = PortraitWidth
    /\ video_height = PortraitHeight
    /\ crop_pc = "idle"
    /\ crop_args = [img_width |-> 1, img_height |-> 1, x |-> 0, y |-> 0, zoom |-> ZoomDen]
    /\ crop_result = [kind |-> "none", box |-> <<0, 0, 0, 0>>]
    /\ fit_log = <<>>

InitTiming ==
    /\ min_scene_interval \in MinIntervals
    /\ audio_pc = "idle"
    /\ audio_analysis = NoAnalysis
    /\ sync_request = NoRequest
    /\ allocation = NoAllocation
    /\ clips = <<>>
    /\ ImageIdle
    /\ OuterIdle

NextTiming ==
    \/ Analyze
    \/ AnalyzeFails
    \/ Distribute
    \/ CreateVideo
    \/ CalculateSceneTimingsAgain
    \/ DistributeAgain

SpecTiming == InitTiming /\ [][NextTiming]_vars

-----------------------------------------------------------------------------
(* utils.clamp *)

clamp(value, min_value, max_value) == Max(min_value, Min(max_value, value))

\* int() of the rational n / d, d > 0: truncation towards zero.
IntTrunc(n, d) == IF n >= 0 THEN n \div d ELSE -((-n) \div d)

-----------------------------------------------------------------------------
(* ImageProcessor._calculate_crop_box, one axis at a time: the x axis        *)
(* (img_width, x, left, right) and the y axis (img_height, y, top, bottom)   *)
(* run the same statements and share no variable.  Positions are multiplied  *)
(* by AxisScale(zn) so that they stay integers.                              *)

AxisScale(zn) == 2 * zn * CoordDen

\* crop = size / zoom; center = size * coord; lo, hi = center -+ crop / 2
RawAxis(size, cn, zn) ==
    [lo |-> size * (2 * zn * cn - ZoomDen * CoordDen),
     hi |-> size * (2 * zn * cn + ZoomDen * CoordDen)]

\* TranslateAxis without the two translations: an edge past the image is
\* left to the final clamping, which cuts the box instead of moving it.
TranslateAxisNone(b, limit) == b

\* TranslateAxis without the second translation: a box past the right or
\* bottom edge is not moved back.
TranslateAxisLowOnly(b, limit) ==
    IF b.lo < 0 THEN [lo |-> 0, hi |-> b.hi - b.lo] ELSE b

\* `if left < 0: ...` then `if right > img_width: ...`
TranslateAxis(b, limit) ==
    LET b1 == IF b.lo < 0 THEN [lo |-> 0, hi |-> b.hi - b.lo] ELSE b
    IN  IF b1.hi > limit
        THEN [lo |-> b1.lo - (b1.hi - limit), hi |-> limit]
        ELSE b1

\* the final clamping
ClampAxis(b, limit) ==
    [lo |-> clamp(b.lo, 0, limit), hi |-> clamp(b.hi, 0, limit)]

\* Where double arithmetic leaves the exact value.  The statements above run
\* in IEEE-754 doubles, in which most twentieths are not representable.  For
\* the arguments <<size, x or y in twentieths, zoom in halves>> listed here
\* the low edge (left, top) is a whole number n in exact arithmetic and
\* n - 2^-k as a double, so int() returns n - 1: img_width = 2, x = 0.85,
\* zoom = 2.0 has left = 0.9999999999999998 and int(left) = 0.  For every
\* other argument with size in 1..6 or 1000 and zoom in 0.5..5.0 both int()
\* results are those of exact arithmetic.
FloatBelowWhole ==
    {<<2, 14, 5>>, <<2, 17, 4>>, <<4, 7, 10>>, <<4, 14, 5>>, <<4, 17, 4>>,
     <<6, 12, 10>>, <<6, 14, 5>>}

\* Where the translated low edge is 0 in exact arithmetic and a rounding
\* residue below 0 as a double, which only the final clamping removes:
\* img_width = 1, x = 0.6, zoom = 1.0 has left = -1.1102230246251565e-16
\* after `left -= (right - img_width)`.  For the other arguments with size in
\* 1..6 or 1000 and zoom in 1.0..5.0 the translated edges are inside the image
\* as doubles too.
FloatBelowZero ==
    {<<1, 12, 2>>, <<1, 17, 2>>, <<2, 12, 2>>, <<2, 17, 2>>, <<3, 11, 2>>,
     <<4, 12, 2>>, <<4, 17, 2>>, <<6, 11, 2>>}

\* CropAxis without the boundary handling: center -+ crop / 2, truncated.
CropAxisNoBoundary(size, cn, zn) ==
    LET scale == AxisScale(zn)
        b     == RawAxis(size, cn, zn)
    IN  [lo |-> IntTrunc(b.lo, scale), hi |-> IntTrunc(b.hi, scale)]

\* int(left), int(right) of one axis
CropAxis(size, cn, zn) ==
    LET scale == AxisScale(zn)
        limit == size * scale
        b     == ClampAxis(TranslateAxis(RawAxis(size, cn, zn), limit), limit)
    IN  [lo |-> IF <<size, cn, zn>> \in FloatBelowWhole
                THEN IntTrunc(b.lo, scale) - 1
                ELSE IntTrunc(b.lo, scale),
         hi |-> IntTrunc(b.hi, scale)]

\* (left, top, right, bottom)
CalculateCropBox(img_width, img_height, xn, yn, zn) ==
    LET h == CropAxis(img_width, xn, zn)
        v == CropAxis(img_height, yn, zn)
    IN  <<h.lo, v.lo, h.hi, v.hi>>

-----------------------------------------------------------------------------
(* ImageProcessor._fit_to_aspect_ratio *)

\* NewWidth with the ratio upside down: int(cropped_height / target_ratio).
NewWidthInvertedRatio(cropped_height, target_w, target_h) ==
    (cropped_height * target_h) \div target_w

\* int(cropped_height * target_ratio)
NewWidth(cropped_height, target_w, target_h) ==
    (cropped_height * target_w) \div target_h

\* int(cropped_width / target_ratio)
NewHeight(cropped_width, target_w, target_h) ==
    (cropped_width * target_h) \div target_w

\* CenterOffset without the halving: the whole margin goes to one side.
CenterOffsetNotHalved(outer, inner) == outer - inner

\* (cropped_width - new_width) // 2, (cropped_height - new_height) // 2
CenterOffset(outer, inner) == (outer - inner) \div 2

\* The box handed to img.crop.
TrimBox(cropped_width, cropped_height, target_w, target_h) ==
    IF cropped_width * target_h > cropped_height * target_w
    THEN LET new_width == NewWidth(cropped_height, target_w, target_h)
             crop_left == CenterOffset(cropped_width, new_width)
         IN  <<crop_left, 0, crop_left + new_width, cropped_height>>
    ELSE LET new_height == NewHeight(cropped_width, target_w, target_h)
             crop_top   == CenterOffset(cropped_height, new_height)
         IN  <<0, crop_top, cropped_width, crop_top + new_height>>

BoxWidth(box) == box[3] - box[1]
BoxHeight(box) == box[4] - box[2]

\* One call: the size of the image given, the box cropped out of it, and the
\* size of the image returned by the final resize.
FitToAspectRatio(w, h) ==
    [img  |-> <<w, h>>,
     crop |-> TrimBox(w, h, video_width, video_height),
     out  |-> <<video_width, video_height>>]

-----------------------------------------------------------------------------
(* Actions of the image processor *)

CropArgs(img_width, img_height, xn, yn, zn) ==
    [img_width |-> img_width, img_height |-> img_height, x |-> xn, y |-> yn, zoom |-> zn]

NoCropResult == [kind |-> "none", box |-> <<0, 0, 0, 0>>]

\* _calculate_crop_box returns a box.
CalculateCropBoxReturns ==
    /\ crop_pc = "idle"
    /\ \E img_width \in ImageDims, img_height \in ImageDims,
          xn \in 0..CoordDen, yn \in 0..CoordDen, zn \in 1..MaxZoomNum :
          /\ crop_args' = CropArgs(img_width, img_height, xn, yn, zn)
          /\ crop_result' = [kind |-> "box",
                             box  |-> CalculateCropBox(img_width, img_height, xn, yn, zn)]
    /\ crop_pc' = "returned"
    /\ UNCHANGED <<video_width, video_height, fit_log>>
    /\ UNCHANGED audio_vars
    /\ UNCHANGED outer_vars

\* zoom = 0: `img_width / zoom` raises ZeroDivisionError.
CalculateCropBoxRaises ==
    /\ crop_pc = "idle"
    /\ \E img_width \in ImageDims, img_height \in ImageDims,
          xn \in 0..CoordDen, yn \in 0..CoordDen :
          crop_args' = CropArgs(img_width, img_height, xn, yn, 0)
    /\ crop_result' = [kind |-> "ZeroDivisionError", box |-> <<0, 0, 0, 0>>]
    /\ crop_pc' = "raised"
    /\ UNCHANGED <<video_width, video_height, fit_log>>
    /\ UNCHANGED audio_vars
    /\ UNCHANGED outer_vars

\* _fit_to_aspect_ratio on an image of any size.
FitImage ==
    /\ fit_log = <<>>
    /\ \E w \in 1..MaxBox, h \in 1..MaxBox :
          fit_log' = <<FitToAspectRatio(w, h)>>
    /\ UNCHANGED <<video_width, video_height, crop_pc, crop_args, crop_result>>
    /\ UNCHANGED audio_vars
    /\ UNCHANGED outer_vars

\* _fit_to_aspect_ratio on an image of the size of the box the call before
\* cropped.
FitAgain ==
    /\ Len(fit_log) = 1
    /\ LET box == fit_log[1].crop IN
          /\ BoxWidth(box) > 0
          /\ BoxHeight(box) > 0
          /\ fit_log' = Append(fit_log, FitToAspectRatio(BoxWidth(box), BoxHeight(box)))
    /\ UNCHANGED <<video_width, video_height, crop_pc, crop_args, crop_result>>
    /\ UNCHANGED audio_vars
    /\ UNCHANGED outer_vars

AudioIdle ==
    /\ min_scene_interval = DefaultMinInterval
    /\ audio_pc = "idle"
    /\ audio_analysis = NoAnalysis
    /\ sync_request = NoRequest
    /\ allocation = NoAllocation
    /\ clips = <<>>

InitCrop ==
    /\ AudioIdle
    /\ OuterIdle
    /\ video_width = PortraitWidth
    /\ video_height = PortraitHeight
    /\ crop_pc = "idle"
    /\ crop_args = CropArgs(1, 1, 0, 0, ZoomDen)
    /\ crop_result = NoCropResult
    /\ fit_log = <<>>

NextCrop == CalculateCropBoxReturns \/ CalculateCropBoxRaises

SpecCrop == InitCrop /\ [][NextCrop]_vars

InitFit ==
    /\ AudioIdle
    /\ OuterIdle
    /\ \E size \in TargetSizes :
          /\ video_width = size[1]
          /\ video_height = size[2]
    /\ crop_pc = "idle"
    /\ crop_args = CropArgs(1, 1, 0, 0, ZoomDen)
    /\ crop_result = NoCropResult
    /\ fit_log = <<>>

NextFit == FitImage \/ FitAgain

SpecFit == InitFit /\ [][NextFit]_vars

-----------------------------------------------------------------------------
(* Properties of distribute_scenes_to_timings and _calculate_scene_timings *)

RECURSIVE SumSeq(_)
SumSeq(s) == IF s = <<>> THEN 0 ELSE Head(s) + SumSeq(Tail(s))

Abs(n) == IF n < 0 THEN -n ELSE n

Distributed == audio_pc \in {"distributed", "rendered"}

\* The list the strategy samples; none under "evenly".
RequestedSource ==
    IF sync_request.strategy = "evenly" THEN <<>>
    ELSE SourceTimings(audio_analysis, sync_request.strategy)

\* The call took the sampling branch, not an even split.
Sampled ==
    /\ Distributed
    /\ sync_request.strategy # "evenly"
    /\ Len(RequestedSource) >= sync_request.num_scenes

DurationNumerators == [k \in DOMAIN allocation.scenes |-> allocation.scenes[k].duration]

StrictlyIncreasing(s) == \A i \in 1..(Len(s) - 1) : s[i] < s[i + 1]

\* C1: for every strategy, every scene_count >= 1 and every source timestamp
\* list, whatever its first timestamp, the durations returned sum to the
\* total duration within 1e-3 s (a hundredth of the model's time unit).
C1_DurationsSumToTotal ==
    Distributed =>
        100 * Abs(SumSeq(DurationNumerators) - audio_analysis.duration * allocation.den)
            <= allocation.den

\* C2: given a positive total duration and strictly increasing source
\* timestamps that all lie in [0, total duration] (the last may equal it),
\* every allocation returned has duration > 0.
C2_DurationsPositive ==
    ( /\ Distributed
      /\ audio_analysis.duration > 0
      /\ StrictlyIncreasing(RequestedSource)
      /\ \A t \in Range(RequestedSource) : 0 <= t /\ t <= audio_analysis.duration )
    => \A k \in DOMAIN allocation.scenes : allocation.scenes[k].duration > 0

\* C3: no two consecutive elements of the timeline _calculate_scene_timings
\* returns are closer than min_interval, a prepended 0.0 included.
C3_TimelineMinInterval ==
    audio_pc \in {"analyzed", "distributed", "rendered"} =>
        \A i \in 1..(Len(audio_analysis.scene_timings) - 1) :
            audio_analysis.scene_timings[i + 1] - audio_analysis.scene_timings[i]
                >= min_scene_interval

\* analyze() has returned its dict.
Analyzed == audio_pc \in {"analyzed", "distributed", "rendered"}

\* C12: the timeline _calculate_scene_timings returns is strictly increasing
\* (sorted, no timestamp twice) for all non-negative beats and onsets, also
\* when the two lists share timestamps and when 0.0 is prepended.
C12_TimelineStrictlyIncreasing ==
    Analyzed => StrictlyIncreasing(audio_analysis.scene_timings)

\* Beats and onsets share a timestamp, neither holds 0.0, and the timeline
\* starts with the prepended 0.0 followed by the shared timestamp.
C12_WitnessSharedTimestampPrepended ==
    /\ Analyzed
    /\ Range(audio_analysis.beats) \cap Range(audio_analysis.onsets) # {}
    /\ 0 \notin Range(audio_analysis.beats \o audio_analysis.onsets)
    /\ Len(audio_analysis.scene_timings) >= 3
    /\ audio_analysis.scene_timings[1] = 0
    /\ audio_analysis.scene_timings[2] \in
           Range(audio_analysis.beats) \cap Range(audio_analysis.onsets)

\* The filtered sequence of the analysis, before the 0.0 is considered.
FilteredOfAnalysis ==
    FilterTimings(SortedSeq(Range(audio_analysis.beats \o audio_analysis.onsets)),
                  1, -min_scene_interval, <<>>, min_scene_interval)

\* C13: the timeline is never empty and its first element is <= 0.1, for all
\* inputs, empty beats and onsets included; 0.0 is prepended exactly when the
\* filtered sequence is empty or its first element is > 0.1.
C13_TimelineStartsWithinThreshold ==
    Analyzed =>
        LET timeline == audio_analysis.scene_timings
            filtered == FilteredOfAnalysis
        IN  /\ timeline # <<>>
            /\ timeline[1] <= StartThreshold
            /\ IF filtered = <<>> \/ filtered[1] > StartThreshold
               THEN timeline = <<0>> \o filtered
               ELSE timeline = filtered

\* No beat and no onset was detected: the timeline is the single 0.0.
C13_WitnessEmptyInputs ==
    /\ Analyzed
    /\ audio_analysis.beats = <<>>
    /\ audio_analysis.onsets = <<>>
    /\ audio_analysis.scene_timings = <<0>>

\* The list each strategy name stands for.
StrategyList ==
    CASE sync_request.strategy = "beats"  -> audio_analysis.beats
      [] sync_request.strategy = "onsets" -> audio_analysis.onsets
      [] OTHER                            -> audio_analysis.scene_timings

\* C14: with strategy 'evenly' and scene_count N >= 1 the allocations are
\* exactly (i, i * T / N, T / N) for i = 0..N-1, whatever beats, onsets and
\* timeline are; N = 4 and T = 40 s give starts 0, 10, 20, 30 s and durations
\* of 10 s.
C14_EvenlyEqualWindows ==
    (Distributed /\ sync_request.strategy = "evenly") =>
        LET N   == sync_request.num_scenes
            T   == audio_analysis.duration
            den == allocation.den
        IN  /\ Len(allocation.scenes) = N
            /\ \A k \in 1..N :
                  /\ allocation.scenes[k].scene_index = k - 1
                  /\ allocation.scenes[k].start_time * N = (k - 1) * T * den
                  /\ allocation.scenes[k].duration * N = T * den
            /\ (N = 4 /\ T = 400) =>
                  \A k \in 1..4 :
                     /\ allocation.scenes[k].start_time = (k - 1) * 100 * den
                     /\ allocation.scenes[k].duration = 100 * den

\* Four scenes spread evenly over 40 s of audio in which beats were detected.
C14_WitnessFourScenesFortySeconds ==
    /\ Distributed
    /\ sync_request.strategy = "evenly"
    /\ sync_request.num_scenes = 4
    /\ audio_analysis.duration = 400
    /\ Len(audio_analysis.beats) >= 2
    /\ allocation.scenes[4].start_time = 300 * allocation.den

\* The call fell back to the even split: the list of its strategy is shorter
\* than scene_count.
FellBack ==
    /\ Distributed
    /\ sync_request.strategy # "evenly"
    /\ Len(StrategyList) < sync_request.num_scenes

\* C15: under beats, onsets or auto, when the chosen list has fewer
\* timestamps than scene_count, the allocations are exactly those the
\* 'evenly' strategy returns for the same scene_count and total duration, and
\* their durations sum to the total duration.
C15_FallbackIsEvenSplit ==
    FellBack =>
        /\ allocation = DistributeScenesToTimings(sync_request.num_scenes,
                                                  audio_analysis, "evenly")
        /\ SumSeq(DurationNumerators) = audio_analysis.duration * allocation.den

\* Strategy 'beats' with fewer beats than scenes, while the merged timeline
\* would have been long enough.
C15_WitnessTooFewBeats ==
    /\ FellBack
    /\ sync_request.strategy = "beats"
    /\ audio_analysis.beats # <<>>
    /\ Len(audio_analysis.scene_timings) >= sync_request.num_scenes
    /\ Len(allocation.scenes) = sync_request.num_scenes

\* C16: allocations are contiguous for every strategy: below the last scene
\* start_time[i] + duration[i] = start_time[i + 1], and for the last scene
\* start_time + duration = total duration.
C16_AllocationsContiguous ==
    Distributed =>
        LET N == Len(allocation.scenes) IN
        /\ \A k \in 1..(N - 1) :
              allocation.scenes[k].start_time + allocation.scenes[k].duration
                  = allocation.scenes[k + 1].start_time
        /\ N >= 1 =>
              allocation.scenes[N].start_time + allocation.scenes[N].duration
                  = audio_analysis.duration * allocation.den

\* Three or more scenes sampled from a list, with scenes of different length.
C16_WitnessSampledUnequal ==
    /\ Sampled
    /\ sync_request.num_scenes >= 3
    /\ allocation.scenes[1].duration # allocation.scenes[2].duration
    /\ allocation.scenes[2].duration > 0

\* The call sampled the list of its strategy.
SampledStrategyList ==
    /\ Distributed
    /\ sync_request.strategy # "evenly"
    /\ Len(StrategyList) >= sync_request.num_scenes

\* idx is k * (L - 1) / (N - 1) rounded to the nearest integer (k from 0; a
\* value halfway between two integers may go either way).
NearestIndex(idx, k, L, N) == 2 * Abs(idx * (N - 1) - k * (L - 1)) <= N - 1

\* C17: when len(source) >= scene_count, the k-th selected index is
\* k * (len(source) - 1) / (scene_count - 1) rounded to the nearest integer,
\* for every k in 0..scene_count-1: scene k starts at the timestamp of the
\* source at such an index.
C17_SelectedIndexRoundedToNearest ==
    (SampledStrategyList /\ sync_request.num_scenes >= 2) =>
        LET N == sync_request.num_scenes
            L == Len(StrategyList)
        IN  \A k \in 0..(N - 1) :
              \E idx \in 0..(L - 1) :
                 /\ NearestIndex(idx, k, L, N)
                 /\ allocation.scenes[k + 1].start_time = StrategyList[idx + 1]

\* C18: when len(source) >= scene_count >= 2 the selected indices are
\* strictly increasing, all within [0, len(source) - 1], the first is 0 and
\* the last is len(source) - 1; for the timeline 0.0, 1.0, 2.5, 4.0, 6.0 and
\* three scenes they are 0, 2, 4: starts 0.0, 2.5, 6.0 and durations 2.5,
\* 3.5, total - 6.0.
C18_SelectedIndicesSpanSource ==
    (SampledStrategyList /\ sync_request.num_scenes >= 2) =>
        LET N      == sync_request.num_scenes
            L      == Len(StrategyList)
            scenes == allocation.scenes
        IN  /\ \A k \in 1..N : scenes[k].start_time \in Range(StrategyList)
            /\ \A k \in 1..(N - 1) : scenes[k].start_time < scenes[k + 1].start_time
            /\ scenes[1].start_time = StrategyList[1]
            /\ scenes[N].start_time = StrategyList[L]
            /\ (StrategyList = <<0, 10, 25, 40, 60>> /\ N = 3) =>
                  /\ allocation.den = 1
                  /\ [k \in 1..3 |-> scenes[k].start_time] = <<0, 25, 60>>
                  /\ [k \in 1..3 |-> scenes[k].duration]
                        = <<25, 35, audio_analysis.duration - 60>>

\* Three scenes on the timeline 0.0, 1.0, 2.5, 4.0, 6.0.
C18_WitnessFivePointTimeline ==
    /\ SampledStrategyList
    /\ sync_request.strategy = "auto"
    /\ sync_request.num_scenes = 3
    /\ audio_analysis.scene_timings = <<0, 10, 25, 40, 60>>
    /\ allocation.scenes[2].start_time = 25

\* C19: the strategy alone decides the source list: 'beats' samples the raw
\* beats, 'onsets' the raw onsets, 'auto' and any other name but 'evenly' the
\* merged timeline; unless the even split fallback applies every start_time
\* returned is an element of that list, sampled from it and no other.
C19_StrategyDecidesSource ==
    SampledStrategyList =>
        /\ \A k \in DOMAIN allocation.scenes :
              allocation.scenes[k].start_time \in Range(StrategyList)
        /\ allocation = SampledSplit(sync_request.num_scenes, StrategyList,
                                     audio_analysis.duration)

\* Strategy 'onsets' started a scene at an onset that the merged timeline
\* does not contain.
C19_WitnessOnsetOutsideTimeline ==
    /\ SampledStrategyList
    /\ sync_request.strategy = "onsets"
    /\ \E k \in DOMAIN allocation.scenes :
          /\ allocation.scenes[k].start_time \notin Range(audio_analysis.scene_timings)
          /\ allocation.scenes[k].start_time \notin Range(audio_analysis.beats)

\* The timestamps detected, beats and onsets together.
DetectedTimestamps == Range(audio_analysis.beats \o audio_analysis.onsets)

\* The timestamps of the timeline that the filter kept: all of it but a
\* prepended 0.0.
KeptTimestamps ==
    Range(audio_analysis.scene_timings)
        \ (IF 0 \in DetectedTimestamps THEN {} ELSE {0})

\* The greatest element of a non-empty set of numbers.
Greatest(S) == CHOOSE x \in S : \A y \in S : y <= x

\* C26: the filter is a forward greedy selection over the sorted,
\* deduplicated union of beats and onsets: a timestamp is kept iff it is at
\* least min_interval after the last kept timestamp, the first one always; so
\* every output element but a prepended 0.0 is an input timestamp, and every
\* dropped timestamp lies less than min_interval after the kept timestamp
\* before it.
C26_FilterIsForwardGreedy ==
    Analyzed =>
        /\ KeptTimestamps \subseteq DetectedTimestamps
        /\ \A t \in DetectedTimestamps :
              LET before == {u \in KeptTimestamps : u < t} IN
              /\ t \in KeptTimestamps <=>
                    (before = {} \/ t - Greatest(before) >= min_scene_interval)
              /\ t \notin KeptTimestamps =>
                    /\ before # {}
                    /\ t - Greatest(before) < min_scene_interval

\* A timestamp was dropped and the next one kept although it is closer than
\* min_interval to the dropped one: the gap is measured from the last kept.
C26_WitnessKeptAfterDropped ==
    /\ Analyzed
    /\ \E t \in DetectedTimestamps \ KeptTimestamps :
       \E v \in KeptTimestamps :
          /\ t < v
          /\ v - t < min_scene_interval
          /\ \E u \in KeptTimestamps : u < t

-----------------------------------------------------------------------------
(* Properties of _create_image_clips_with_timings *)

\* create_video() has built and concatenated the clips.
Rendered == audio_pc = "rendered"

\* C20: in rhythm mode the rendered time axis matches the allocations: the
\* k-th clip begins in the concatenated video at the start_time of its
\* allocation, i.e. the durations of the clips before it sum to start_time[k].
C20_ClipsBeginAtStartTime ==
    Rendered =>
        \A k \in DOMAIN clips : ClipBegin(clips, k) = clips[k].start_time

-----------------------------------------------------------------------------
(* Properties of _calculate_crop_box *)

CropReturned == crop_pc = "returned"

\* zoom >= 1.0
ZoomAtLeastOne == crop_args.zoom >= ZoomDen

\* C4: for positive image dimensions, zoom >= 1 and x, y in [0, 1] the box
\* returned lies inside the image: 0 <= left <= right <= img_width and
\* 0 <= top <= bottom <= img_height.
C4_CropBoxInsideImage ==
    (CropReturned /\ ZoomAtLeastOne) =>
        LET box == crop_result.box IN
        /\ 0 <= box[1] /\ box[1] <= box[3] /\ box[3] <= crop_args.img_width
        /\ 0 <= box[2] /\ box[2] <= box[4] /\ box[4] <= crop_args.img_height

\* A box that the right and bottom edges of the image stopped: the focus is the
\* bottom right corner and the zoom is above 1.
C4_WitnessCornerFocus ==
    /\ CropReturned
    /\ crop_args.zoom > ZoomDen
    /\ crop_args.x = CoordDen /\ crop_args.y = CoordDen
    /\ crop_result.box[3] = crop_args.img_width
    /\ crop_result.box[4] = crop_args.img_height
    /\ crop_result.box[1] > 0

\* C5: for positive image dimensions, zoom >= 1 and x, y in [0, 1] the box
\* returned has strictly positive area: left < right and top < bottom.
C5_CropBoxPositiveArea ==
    (CropReturned /\ ZoomAtLeastOne) =>
        /\ crop_result.box[1] < crop_result.box[3]
        /\ crop_result.box[2] < crop_result.box[4]

\* |extent - size / zoom| compared with `pixels` pixels, both sides multiplied
\* by zn: size / zoom = size * ZoomDen / zn.
ExtentOffBy(extent, size) == Abs(extent * crop_args.zoom - size * ZoomDen)

\* C6 as stated: for zoom >= 1 and x, y in [0, 1] the box width differs from
\* img_width / zoom by less than 1 pixel and the height from img_height / zoom
\* by less than 1 pixel.
C6_ExtentWithinLessThanOnePixel ==
    (CropReturned /\ ZoomAtLeastOne) =>
        /\ ExtentOffBy(BoxWidth(crop_result.box), crop_args.img_width) < crop_args.zoom
        /\ ExtentOffBy(BoxHeight(crop_result.box), crop_args.img_height) < crop_args.zoom

\* C6 as amended: the width differs from img_width / zoom by at most 1 pixel
\* and the height from img_height / zoom by at most 1 pixel, the box is never
\* narrower or lower than one pixel less than the requested extent, and
\* img_width = 1000, zoom = 2, x = 0.95 gives left = 500, right = 1000.
C6_ExtentWithinOnePixel ==
    (CropReturned /\ ZoomAtLeastOne) =>
        /\ ExtentOffBy(BoxWidth(crop_result.box), crop_args.img_width) <= crop_args.zoom
        /\ ExtentOffBy(BoxHeight(crop_result.box), crop_args.img_height) <= crop_args.zoom
        /\ ( /\ crop_args.img_width = 1000
             /\ crop_args.zoom = 2 * ZoomDen
             /\ 100 * crop_args.x = 95 * CoordDen )
           => (crop_result.box[1] = 500 /\ crop_result.box[3] = 1000)

\* The focus x = 0.95 at zoom 2 on an image 1000 px wide: the box was moved
\* left off the right edge.
C6_WitnessShiftedBox ==
    /\ CropReturned
    /\ crop_args.img_width = 1000
    /\ crop_args.zoom = 2 * ZoomDen
    /\ 100 * crop_args.x = 95 * CoordDen
    /\ crop_result.box[1] = 500
    /\ crop_result.box[3] = 1000

\* C10: a focus whose zoom is below 1.0 is rejected with an InvalidFocus
\* error, and no crop box is returned for it.
C10_ZoomBelowOneRejected ==
    (crop_pc # "idle" /\ crop_args.zoom < ZoomDen) =>
        /\ crop_pc = "raised"
        /\ crop_result.kind = "InvalidFocus"

\* The crop the arguments ask for rounds to zero pixels in a dimension.
CropRoundsToZero ==
    LET box == CalculateCropBox(crop_args.img_width, crop_args.img_height,
                                crop_args.x, crop_args.y, crop_args.zoom)
    IN  BoxWidth(box) = 0 \/ BoxHeight(box) = 0

\* C11: when the zoom is so large that the computed crop rounds to zero
\* pixels in either dimension, _calculate_crop_box signals DegenerateCrop
\* instead of returning a box.
C11_DegenerateCropSignalled ==
    (crop_pc # "idle" /\ ZoomAtLeastOne /\ CropRoundsToZero) =>
        /\ crop_pc = "raised"
        /\ crop_result.kind = "DegenerateCrop"

\* One axis of the call after the translations, before the final clamping.
TranslatedAxis(size, cn) ==
    TranslateAxis(RawAxis(size, cn, crop_args.zoom), size * AxisScale(crop_args.zoom))

\* The final clamping leaves both edges of the axis where they are: they are
\* inside the image in exact arithmetic and the doubles carry no residue.
ClampChangesNothing(size, cn) ==
    /\ ClampAxis(TranslatedAxis(size, cn), size * AxisScale(crop_args.zoom))
           = TranslatedAxis(size, cn)
    /\ <<size, cn, crop_args.zoom>> \notin FloatBelowZero

\* int() of the translated edges of one axis, the final clamping left out.
UnclampedAxis(size, cn) ==
    LET scale == AxisScale(crop_args.zoom)
        b     == TranslatedAxis(size, cn)
    IN  [lo |-> IF <<size, cn, crop_args.zoom>> \in FloatBelowZero THEN 0
                ELSE IF <<size, cn, crop_args.zoom>> \in FloatBelowWhole
                     THEN IntTrunc(b.lo, scale) - 1
                     ELSE IntTrunc(b.lo, scale),
         hi |-> IntTrunc(b.hi, scale)]

\* C27 as stated: size is clamped only when the image cannot contain the
\* desired crop: for zoom < 1 and x, y in [0, 1] the box returned is the
\* whole image (0, 0, W, H); for zoom >= 1 the final clamp changes no edge,
\* translation alone having put the box inside the image.
C27_ClampChangesNoEdge ==
    CropReturned =>
        IF ZoomAtLeastOne
        THEN /\ ClampChangesNothing(crop_args.img_width, crop_args.x)
             /\ ClampChangesNothing(crop_args.img_height, crop_args.y)
        ELSE crop_result.box = <<0, 0, crop_args.img_width, crop_args.img_height>>

\* C27 as amended: for zoom < 1 the box returned is the whole image; for
\* zoom >= 1 the final clamp changes no coordinate of the box returned, which
\* is the truncation of the translated edges.
C27_ClampChangesNoReturnedEdge ==
    CropReturned =>
        IF ZoomAtLeastOne
        THEN LET h == UnclampedAxis(crop_args.img_width, crop_args.x)
                 v == UnclampedAxis(crop_args.img_height, crop_args.y)
             IN  crop_result.box = <<h.lo, v.lo, h.hi, v.hi>>
        ELSE crop_result.box = <<0, 0, crop_args.img_width, crop_args.img_height>>

\* The translated left edge is a rounding residue below 0, which the clamp
\* sets to 0; the box returned starts at pixel 0 either way.
C27_WitnessResidueClamped ==
    /\ CropReturned
    /\ ZoomAtLeastOne
    /\ <<crop_args.img_width, crop_args.x, crop_args.zoom>> \in FloatBelowZero
    /\ crop_result.box[1] = 0
    /\ crop_result.box[3] = crop_args.img_width

-----------------------------------------------------------------------------
(* Properties of _fit_to_aspect_ratio *)

\* The image of call e was too wide: current_ratio > target_ratio.
TooWide(e) == e.img[1] * video_height > e.img[2] * video_width

\* C7: applying the trim rule to the box it produced returns the same width
\* and height, for every positive box size and target ratio.
C7_TrimIdempotent ==
    Len(fit_log) = 2 =>
        /\ BoxWidth(fit_log[2].crop) = fit_log[2].img[1]
        /\ BoxHeight(fit_log[2].crop) = fit_log[2].img[2]

\* C8: after the trim the box ratio is the target ratio within one pixel: a
\* box that was too wide keeps its height and gets a width within 1 px of
\* height * target_w / target_h; any other box keeps its width and gets a
\* height within 1 px of width * target_h / target_w.
C8_RatioWithinOnePixel ==
    \A i \in DOMAIN fit_log :
        LET e == fit_log[i]
            w == e.img[1]
            h == e.img[2]
        IN  IF TooWide(e)
            THEN /\ BoxHeight(e.crop) = h
                 /\ Abs(BoxWidth(e.crop) * video_height - h * video_width) <= video_height
            ELSE /\ BoxWidth(e.crop) = w
                 /\ Abs(BoxHeight(e.crop) * video_width - w * video_height) <= video_width

\* A too wide image whose new width is not a whole number before int(), and a
\* too tall image whose new height is not.
C8_WitnessTruncatedWidth ==
    /\ fit_log # <<>>
    /\ TooWide(fit_log[1])
    /\ (fit_log[1].img[2] * video_width) % video_height # 0
    /\ BoxWidth(fit_log[1].crop) > 0

\* C9: the trim only ever shrinks one dimension: new_w <= w and new_h <= h
\* with at most one of them changed, the trimmed region lies inside the
\* original box, and the margins on the two sides differ by at most 1 px.
C9_TrimShrinksOneDimensionCentred ==
    \A i \in DOMAIN fit_log :
        LET e    == fit_log[i]
            w    == e.img[1]
            h    == e.img[2]
            box  == e.crop
        IN  /\ BoxWidth(box) <= w
            /\ BoxHeight(box) <= h
            /\ (BoxWidth(box) = w \/ BoxHeight(box) = h)
            /\ 0 <= box[1] /\ box[1] <= box[3] /\ box[3] <= w
            /\ 0 <= box[2] /\ box[2] <= box[4] /\ box[4] <= h
            /\ Abs(box[1] - (w - box[3])) <= 1
            /\ Abs(box[2] - (h - box[4])) <= 1

\* A trim that took an odd number of columns off: the two margins differ by
\* exactly one pixel.
C9_WitnessOddMargin ==
    /\ fit_log # <<>>
    /\ TooWide(fit_log[1])
    /\ BoxWidth(fit_log[1].crop) > 0
    /\ (fit_log[1].img[1] - fit_log[1].crop[3]) - fit_log[1].crop[1] = 1

-----------------------------------------------------------------------------
(* Specification of the text-length mode of the video maker *)

InitDuration ==
    /\ AudioIdle
    /\ ImageIdle
    /\ ResizeIdle
    /\ MenuIdle
    /\ PipeIdle
    /\ base_duration \in BaseDurations
    /\ duration_per_char \in DurationsPerChar
    /\ text_pc = "idle"
    /\ text_clips = <<>>

NextDuration == CreateImageClipsCall

SpecDuration == InitDuration /\ [][NextDuration]_vars

\* C23 as stated: in text-length mode the duration of a narrated scene with n
\* characters equals base_duration + n * duration_per_char, for every n >= 0
\* and every configured base and rate.
C23_DurationIsBasePlusChars ==
    \A i \in DOMAIN text_clips :
        text_clips[i].narrated =>
            10 * text_clips[i].duration
                = base_duration + text_clips[i].chars * duration_per_char

\* C23 as amended: the duration is base_duration + n * duration_per_char
\* rounded to one decimal: a whole number of tenths of a second at most 0.05 s
\* away from the sum.
C23_DurationIsRoundedToTenth ==
    \A i \in DOMAIN text_clips :
        text_clips[i].narrated =>
            Abs(10 * text_clips[i].duration
                - (base_duration + text_clips[i].chars * duration_per_char)) <= 5

\* A text of one character under the default configuration: 1.58 s, which
\* becomes a clip of 1.6 s.
C23_WitnessOneCharacter ==
    /\ text_pc = "done"
    /\ base_duration = DefaultBaseDuration
    /\ duration_per_char = DefaultDurationPerChar
    /\ Len(text_clips) >= 2
    /\ text_clips[1].narrated
    /\ text_clips[1].chars = 1
    /\ text_clips[1].duration = 16

-----------------------------------------------------------------------------
(* Specification of resize_image_under_limit *)

InitResize ==
    /\ AudioIdle
    /\ ImageIdle
    /\ TextIdle
    /\ MenuIdle
    /\ PipeIdle
    /\ max_dimension \in MaxDimensions
    /\ min_dimension \in MinDimensions
    /\ resize_pc = "idle"
    /\ width = 0
    /\ height = 0
    /\ quality = InitialQuality

NextResize ==
    \/ OpenImage
    \/ EncodingFits
    \/ LowerQuality
    \/ ShrinkImage

SpecResize == InitResize /\ [][NextResize]_vars

\* The loop is sequential code: an iteration that can run does run.
FairResize == SpecResize /\ WF_vars(NextResize)

Terminated == resize_pc \in {"returned", "raised"}

\* One iteration of the loop, in the three forms the claim lists; the second
\* and third end with the check of min_dimension.
IterationShape ==
    \/ resize_pc' = "returned" /\ UNCHANGED <<width, height, quality>>
    \/ /\ quality > QualityFloor
       /\ quality' = quality - QualityStep
       /\ UNCHANGED <<width, height>>
       /\ resize_pc' = IF TooSmall(width, height) THEN "raised" ELSE "retry"
    \/ /\ quality = QualityFloor
       /\ 100 * width' <= ShrinkPercent * width
       /\ 100 * width' > ShrinkPercent * width - 100
       /\ 100 * height' <= ShrinkPercent * height
       /\ 100 * height' > ShrinkPercent * height - 100
       /\ quality' = InitialQuality
       /\ resize_pc' = IF TooSmall(width', height') THEN "raised" ELSE "retry"

\* C30: for min_dimension >= 1 the loop always terminates; every iteration
\* returns the encoding, or lowers quality by 5 while quality > 40, or
\* shrinks both sides to floor(0.85 * side) and resets quality to 85; it
\* raises as soon as a side is below min_dimension after an iteration; and
\* quality stays within [40, 85].
C30_ResizeLoopTerminates ==
    /\ <>Terminated
    /\ [](quality \in QualityFloor..InitialQuality)
    /\ [](resize_pc = "retry" => ~TooSmall(width, height))
    /\ [][Encoding => IterationShape]_vars

\* The loop went down the whole quality ladder, shrank the image and raised
\* because the width, still positive, fell below min_dimension.
C30_WitnessShrunkBelowMinimum ==
    /\ resize_pc = "raised"
    /\ quality = InitialQuality
    /\ width > 0
    /\ width < min_dimension
    /\ height >= min_dimension

-----------------------------------------------------------------------------
(* Specification of the menu of run.py *)

InitMenu ==
    /\ AudioIdle
    /\ ImageIdle
    /\ TextIdle
    /\ ResizeIdle
    /\ PipeIdle
    /\ paintings \in PaintingLists
    /\ menu_pc = "menu"
    /\ choice = "none"
    /\ run_log = <<>>
    /\ exit_cause = "none"

NextMenu ==
    \/ ShowMenuRaises
    \/ ChooseExit
    \/ RunAll
    \/ CancelRunAll
    \/ RunOne
    \/ BadChoice
    \/ InterruptAtPrompt

SpecMenu == InitMenu /\ [][NextMenu]_vars

RanAll == choice = "99 y"

\* A painting whose subprocess exits with an error does not prevent the
\* paintings after it from running.
FailureDoesNotStopTheRun ==
    \A i \in DOMAIN run_log :
        (run_log[i].subprocess = "failed" /\ i < Len(paintings)) => i < Len(run_log)

\* C29 as stated: in run-all mode run_painting is invoked exactly once per
\* painting in list order, a failed subprocess does not stop the paintings
\* after it, and only choice 0 or a keyboard interrupt ends the menu loop.
C29_RunAllRunsEveryPainting ==
    /\ RanAll =>
          /\ Len(run_log) = Len(paintings)
          /\ \A i \in DOMAIN run_log : run_log[i].index = i
          /\ FailureDoesNotStopTheRun
    /\ menu_pc = "exited" => exit_cause \in {"choice 0", "KeyboardInterrupt"}

\* C29 as amended: run_painting is invoked once per painting in list order
\* until the list is exhausted or a call raises (a keyboard interrupt, or any
\* exception other than the subprocess's exit error); a failed subprocess
\* does not stop the paintings after it; the loop ends only by choice 0, by a
\* keyboard interrupt or by an exception of show_menu.
C29_RunAllRunsUntilACallRaises ==
    /\ RanAll =>
          /\ Len(run_log) <= Len(paintings)
          /\ \A i \in DOMAIN run_log : run_log[i].index = i
          /\ \A i \in DOMAIN run_log : i < Len(run_log) => run_log[i].result = "returned"
          /\ Len(run_log) < Len(paintings) =>
                run_log[Len(run_log)].result \in {"KeyboardInterrupt", "Exception"}
          /\ FailureDoesNotStopTheRun
    /\ menu_pc = "exited" =>
          exit_cause \in {"choice 0", "KeyboardInterrupt", "show_menu"}

\* A run of all paintings in which the subprocess of the first failed and the
\* last painting was run all the same.
C29_WitnessRunAfterFailure ==
    /\ RanAll
    /\ Len(paintings) = MaxPaintings
    /\ Len(run_log) = Len(paintings)
    /\ run_log[1].subprocess = "failed"
    /\ run_log[Len(run_log)].subprocess = "completed"
    /\ menu_pc = "menu"

-----------------------------------------------------------------------------
(* main.py: process_artwork *)

\* Sizes of the downloaded image.
SourceSizes == {<<2, 2>>, <<2, 1000>>, <<1000, 1000>>}

\* The coordinates the analyzer answers with: the whole image (x = y = 0.5,
\* zoom = 1.0), a detail (x = y = 0.25, zoom = 4.0), and a zoom of 0; with the
\* number of characters of the text.
CoordinateChoices ==
    {[x |-> 10, y |-> 10, zoom |-> ZoomDen, chars |-> 1],
     [x |-> 5,  y |-> 5,  zoom |-> 8,       chars |-> 3],
     [x |-> 10, y |-> 10, zoom |-> 0,       chars |-> MaxChars]}

CoordinateLists == UNION {[1..n -> CoordinateChoices] : n \in 0..MaxCoordinates}

\* What AudioAnalyzer.analyze returns for the tracks the model runs with: 40 s
\* with beats at 1.0 and 2.5 s and onsets at 4.0 and 6.0 s, and 0.5 s of
\* silence.
AudioTracks ==
    {[duration      |-> 400,
      beats         |-> <<10, 25>>,
      onsets        |-> <<40, 60>>,
      scene_timings |-> CalculateSceneTimings(<<10, 25>>, <<40, 60>>, DefaultMinInterval)],
     [duration      |-> MaxTime,
      beats         |-> <<>>,
      onsets        |-> <<>>,
      scene_timings |-> CalculateSceneTimings(<<>>, <<>>, DefaultMinInterval)]}

\* Values of config['audio']['sync_strategy'] the model runs with.
SyncStrategies == {"auto", "evenly"}

\* The entry of image_files that is the museum scene.
FinalScene == 0

\* AfterDownload that ignores the return value of download_image.
AfterDownloadIgnored(ok) == "downloaded"

\* `if not processor.download_image(...): raise Exception`
AfterDownload(ok) == IF ok THEN "downloaded" ELSE "raised"

\* `if not result['success']: raise Exception`
AfterAnalysis(success) == IF success THEN "analyzed" ELSE "raised"

\* One pass of the loop of generate_zoomed_images.  zoom = 0 raises in
\* _calculate_crop_box; a crop of height 0 raises in _fit_to_aspect_ratio
\* (cropped_width / cropped_height); a crop of width 0 and positive height
\* goes through _fit_to_aspect_ratio as an image without pixels, whose final
\* resize raises or not with the version of the imaging library.
ZoomOne(size, coord, resize_raises) ==
    IF coord.zoom = 0
    THEN [kind |-> "ZeroDivisionError", box |-> <<0, 0, 0, 0>>, fitted |-> FALSE]
    ELSE LET box == CalculateCropBox(size[1], size[2], coord.x, coord.y, coord.zoom) IN
         IF BoxHeight(box) = 0
         THEN [kind |-> "ZeroDivisionError", box |-> box, fitted |-> TRUE]
         ELSE IF BoxWidth(box) = 0 /\ resize_raises
              THEN [kind |-> "ValueError", box |-> box, fitted |-> TRUE]
              ELSE [kind |-> "saved", box |-> box, fitted |-> TRUE]

\* `for coord in coordinates`: the passes made, up to the first that raises.
RECURSIVE ZoomLoop(_, _, _, _, _)
ZoomLoop(size, coords, resize_raises, i, log) ==
    IF i > Len(coords) THEN log
    ELSE LET one == ZoomOne(size, coords[i], resize_raises) IN
         IF one.kind = "saved"
         THEN ZoomLoop(size, coords, resize_raises, i + 1, Append(log, one))
         ELSE Append(log, one)

ZoomRaised(log) == log # <<>> /\ log[Len(log)].kind # "saved"

\* The nested conditions of step 6: scene_timings stays None unless the
\* enabled flag is skipped.
SceneTimingsIgnoringEnabled(options, num_scenes, analysis, strategy) ==
    IF options.requested /\ options.exists /\ options.analyzed
    THEN LET a == DistributeScenesToTimings(num_scenes, analysis, strategy)
         IN  [is_none |-> FALSE, den |-> a.den, scenes |-> a.scenes]
    ELSE NoSceneTimings

\* The nested conditions of step 6: `if args.audio`, `if not
\* audio_file_path.exists()`, `if config.get('audio', {}).get('enabled',
\* False)`, `if audio_analysis`.
SceneTimingsFor(options, num_scenes, analysis, strategy) ==
    IF options.requested /\ options.exists /\ options.enabled /\ options.analyzed
    THEN LET a == DistributeScenesToTimings(num_scenes, analysis, strategy)
         IN  [is_none |-> FALSE, den |-> a.den, scenes |-> a.scenes]
    ELSE NoSceneTimings

\* create_video: `if scene_timings:` chooses the clips.  A clip is the
\* position of its image in image_files and its duration (a numerator over
\* den in rhythm mode, tenths of a second in text mode).
CreateVideoCall(image_files, texts, timings, tie_ups) ==
    IF ~timings.is_none /\ timings.scenes # <<>>
    THEN LET timed == CreateImageClipsWithTimings(Len(image_files), timings.scenes) IN
         [mode  |-> "rhythm",
          clips |-> [k \in DOMAIN timed |->
                        [position |-> timed[k].scene_index,
                         duration |-> timed[k].duration]]]
    ELSE LET timed == CreateImageClips(Len(image_files), texts, base_duration,
                                       duration_per_char, tie_ups) IN
         [mode  |-> "text",
          clips |-> [k \in DOMAIN timed |->
                        [position |-> k - 1,
                         duration |-> timed[k].duration]]]

\* 1. download
DownloadImage ==
    /\ pipe_pc = "start"
    /\ \E ok \in BOOLEAN, size \in SourceSizes :
          /\ download_ok' = ok
          /\ image_size' = IF ok THEN size ELSE <<0, 0>>
          /\ pipe_pc' = AfterDownload(ok)
    /\ stages' = Append(stages, "download")
    /\ UNCHANGED <<scene_texts, analysis_success, coordinates, zoom_log, zoomed_files,
                   subtitled_files, audio_options, scene_timings_arg, video>>
    /\ UNCHANGED beside_pipe

\* 2. analyzer.analyze: the answer has any number of coordinates.
AnalyzeImage ==
    /\ pipe_pc = "downloaded"
    /\ \E success \in BOOLEAN, coords \in CoordinateLists :
          /\ analysis_success' = success
          /\ coordinates' = IF success THEN coords ELSE <<>>
          /\ pipe_pc' = AfterAnalysis(success)
    /\ stages' = Append(stages, "coordinate analysis")
    /\ UNCHANGED <<scene_texts, image_size, download_ok, zoom_log, zoomed_files,
                   subtitled_files, audio_options, scene_timings_arg, video>>
    /\ UNCHANGED beside_pipe

\* 3. generate_zoomed_images: an exception of the loop leaves process_artwork.
GenerateZoomedImages ==
    /\ pipe_pc = "analyzed"
    /\ \E resize_raises \in BOOLEAN :
          LET log == ZoomLoop(image_size, coordinates, resize_raises, 1, <<>>) IN
          /\ zoom_log' = log
          /\ zoomed_files' = IF ZoomRaised(log) THEN <<>> ELSE [i \in DOMAIN log |-> i]
          /\ pipe_pc' = IF ZoomRaised(log) THEN "raised" ELSE "zoomed"
    /\ stages' = Append(stages, "zoomed images")
    /\ UNCHANGED <<scene_texts, image_size, download_ok, analysis_success, coordinates,
                   subtitled_files, audio_options, scene_timings_arg, video>>
    /\ UNCHANGED beside_pipe

\* 4. add_subtitles: zip(image_files, texts)
AddSubtitles ==
    /\ pipe_pc = "zoomed"
    /\ subtitled_files' = SubSeq(zoomed_files, 1, Min(Len(zoomed_files), Len(coordinates)))
    /\ pipe_pc' = "subtitled"
    /\ stages' = Append(stages, "subtitles")
    /\ UNCHANGED <<scene_texts, image_size, download_ok, analysis_success, coordinates,
                   zoom_log, zoomed_files, audio_options, scene_timings_arg, video>>
    /\ UNCHANGED beside_pipe

\* 5. create_museum_view and subtitled_files.append(final_scene)
CreateMuseumView ==
    /\ pipe_pc = "subtitled"
    /\ subtitled_files' = Append(subtitled_files, FinalScene)
    /\ pipe_pc' = "museum"
    /\ stages' = Append(stages, "museum scene")
    /\ UNCHANGED <<scene_texts, image_size, download_ok, analysis_success, coordinates,
                   zoom_log, zoomed_files, audio_options, scene_timings_arg, video>>
    /\ UNCHANGED beside_pipe

\* 6. the optional audio analysis
PrepareAudio ==
    /\ pipe_pc = "museum"
    /\ \E options \in [requested : BOOLEAN, exists : BOOLEAN, enabled : BOOLEAN,
                        analyzed : BOOLEAN],
          analysis \in AudioTracks, strategy \in SyncStrategies :
          /\ audio_options' = options
          /\ scene_timings_arg' = SceneTimingsFor(options, scene_texts + 1, analysis, strategy)
          /\ stages' = IF options.requested /\ options.exists /\ options.enabled
                        THEN Append(stages, "audio analysis")
                        ELSE stages
    /\ pipe_pc' = "timed"
    /\ UNCHANGED <<scene_texts, image_size, download_ok, analysis_success, coordinates,
                   zoom_log, zoomed_files, subtitled_files, video>>
    /\ UNCHANGED beside_pipe

\* 7. create_video with all_texts = subtitle_texts + [None]; False is answered
\* with an exception.
CreateVideoFile ==
    /\ pipe_pc = "timed"
    /\ \E ok \in BOOLEAN, tie_ups \in [DOMAIN subtitled_files -> BOOLEAN] :
          LET all_texts == [i \in DOMAIN coordinates |-> coordinates[i].chars] \o <<NoText>>
          IN  /\ video' = IF ok
                           THEN CreateVideoCall(subtitled_files, all_texts,
                                                scene_timings_arg, tie_ups)
                           ELSE NoVideo
              /\ pipe_pc' = IF ok THEN "finished" ELSE "raised"
    /\ stages' = Append(stages, "video creation")
    /\ UNCHANGED <<scene_texts, image_size, download_ok, analysis_success, coordinates,
                   zoom_log, zoomed_files, subtitled_files, audio_options,
                   scene_timings_arg>>
    /\ UNCHANGED beside_pipe

InitPipeline ==
    /\ AudioIdle
    /\ ImageIdle
    /\ TextIdle
    /\ ResizeIdle
    /\ MenuIdle
    /\ pipe_pc = "start"
    /\ stages = <<>>
    /\ scene_texts \in 1..MaxNarrations
    /\ image_size = <<0, 0>>
    /\ download_ok = TRUE
    /\ analysis_success = TRUE
    /\ coordinates = <<>>
    /\ zoom_log = <<>>
    /\ zoomed_files = <<>>
    /\ subtitled_files = <<>>
    /\ audio_options = NoAudioOptions
    /\ scene_timings_arg = NoSceneTimings
    /\ video = NoVideo

NextPipeline ==
    \/ DownloadImage
    \/ AnalyzeImage
    \/ GenerateZoomedImages
    \/ AddSubtitles
    \/ CreateMuseumView
    \/ PrepareAudio
    \/ CreateVideoFile

SpecPipeline == InitPipeline /\ [][NextPipeline]_vars

-----------------------------------------------------------------------------
(* Properties of process_artwork *)

Finished == pipe_pc = "finished"

InScenePosition(clip_list) == \A k \in DOMAIN clip_list : clip_list[k].position = k - 1

\* C21: the video has exactly one clip per scene, in scene order: in both
\* timing modes the number of clips is the number of narration scenes plus
\* the final museum scene, also when the analyzer returns fewer or more
\* coordinates than scenes.
C21_OneClipPerScene ==
    Finished =>
        /\ Len(video.clips) = scene_texts + 1
        /\ InScenePosition(video.clips)

AllAudioConditions ==
    /\ audio_options.requested
    /\ audio_options.exists
    /\ audio_options.enabled
    /\ audio_options.analyzed

AudioDecided == pipe_pc \in {"timed", "finished"}

\* C22: rhythm allocations reach the video maker only when an audio file was
\* requested, the file exists, audio sync is enabled and the analysis returned
\* a result; in every other combination scene_timings is None and create_video
\* uses text-length durations.
C22_RhythmOnlyWhenAudioAnalysed ==
    /\ (AudioDecided /\ ~AllAudioConditions) => scene_timings_arg = NoSceneTimings
    /\ (Finished /\ ~AllAudioConditions) => video.mode = "text"

\* The audio file was requested, exists and can be analysed, but sync is
\* disabled in the configuration: the video is timed by the texts.
C22_WitnessSyncDisabled ==
    /\ Finished
    /\ audio_options.requested
    /\ audio_options.exists
    /\ audio_options.analyzed
    /\ ~audio_options.enabled
    /\ video.mode = "text"
    /\ Len(video.clips) >= 2

ZoomStageRan == pipe_pc \in {"zoomed", "subtitled", "museum", "timed", "finished"}
                    \/ (pipe_pc = "raised" /\ Len(stages) >= 3)

\* The crop of coordinate i cannot be computed validly: the zoom is 0 or the
\* box has no area.
InvalidCrop(i) ==
    \/ coordinates[i].zoom = 0
    \/ LET box == CalculateCropBox(image_size[1], image_size[2], coordinates[i].x,
                                    coordinates[i].y, coordinates[i].zoom)
       IN  BoxWidth(box) = 0 \/ BoxHeight(box) = 0

\* C24: a scene whose crop cannot be computed validly is dropped while the
\* remaining scenes are processed: generate_zoomed_images visits every
\* coordinate, never hands a crop without area to _fit_to_aspect_ratio, and
\* saves exactly the scenes whose crop is valid.
C24_InvalidCropDropped ==
    ZoomStageRan =>
        /\ Len(zoom_log) = Len(coordinates)
        /\ \A i \in DOMAIN zoom_log :
              /\ InvalidCrop(i) => (zoom_log[i].kind = "dropped" /\ ~zoom_log[i].fitted)
              /\ ~InvalidCrop(i) => zoom_log[i].kind = "saved"

StageOrder ==
    <<"download", "coordinate analysis", "zoomed images", "subtitles", "museum scene",
      "audio analysis", "video creation">>

RECURSIVE IsSubsequence(_, _)
IsSubsequence(short, long) ==
    IF short = <<>> THEN TRUE
    ELSE IF long = <<>> THEN FALSE
    ELSE IF Head(short) = Head(long) THEN IsSubsequence(Tail(short), Tail(long))
    ELSE IsSubsequence(short, Tail(long))

\* The stages before video creation that are not optional.
RequiredStages == {StageOrder[k] : k \in 1..5}

\* C28: the stages run in the fixed order, only the audio analysis may be
\* left out; a download that returns False or an analysis without success
\* raises and no later stage runs; video creation comes only after every
\* earlier stage.
C28_StagesInFixedOrder ==
    /\ IsSubsequence(stages, StageOrder)
    /\ \A k \in DOMAIN stages :
          stages[k] # "audio analysis" => \A j \in 1..(k - 1) : stages[j] = StageOrder[j]
    /\ ~download_ok => (pipe_pc = "raised" /\ stages = <<"download">>)
    /\ ~analysis_success =>
          (pipe_pc = "raised" /\ stages = <<"download", "coordinate analysis">>)
    /\ "video creation" \in Range(stages) => RequiredStages \subseteq Range(stages)

\* The download returned False: process_artwork raised after its first stage.
C28_WitnessDownloadFailed ==
    /\ ~download_ok
    /\ pipe_pc = "raised"
    /\ stages = <<"download">>

====
